---- MODULE Spec2Model ----
(***************************************************************************)
(* Model of shiny/driver/windriver/windraw.c: fill() builds a 32 bpp DIB   *)
(* section the size of a rectangle, writes one color into every cell and   *)
(* composites it on a destination context with AlphaBlend (draw.Over) or   *)
(* BitBlt (draw.Src).  The GDI primitives are modelled at their call       *)
(* sites: each may fail, and the code's reaction to the failure (none) is  *)
(* what the actions below reproduce.                                       *)
(***************************************************************************)
EXTENDS Integers, Sequences, FiniteSets, TLC

\* ---------------------------------------------------------------- bounds
MaxOrigin == 1      \* left and top range over 0..MaxOrigin
MaxEdge == 2        \* right and bottom range over 0..MaxEdge and LONG_MAX
DestW == 2          \* width of the destination surface, in pixels
DestH == 2          \* height of the destination surface, in pixels

\* ------------------------------------------------- LONG (32-bit signed)
LONG_MAX == 2147483647
LONG_MIN == (-LONG_MAX) - 1

\* a + b in 32-bit two's complement, without leaving the LONG range
AddWrap(a, b) ==
    IF a >= 0 /\ b >= 0 /\ a > LONG_MAX - b
    THEN ((a - LONG_MAX) + (b - LONG_MAX)) - 2
    ELSE IF a < 0 /\ b < 0 /\ a < LONG_MIN - b
    THEN ((a + LONG_MAX) + (b + LONG_MAX)) + 2
    ELSE a + b

NegWrap(a) == IF a = LONG_MIN THEN LONG_MIN ELSE -a

SubWrap(a, b) ==
    IF b = LONG_MIN THEN AddWrap(AddWrap(a, LONG_MAX), 1)
    ELSE AddWrap(a, NegWrap(b))

\* A 32-bit word as two unsigned 16-bit limbs <<high, low>>
ToLimbs(v) == <<(v \div 65536) % 65536, v % 65536>>

FromLimbs(w) ==
    IF w[1] >= 32768 THEN ((w[1] - 65536) * 65536) + w[2]
    ELSE (w[1] * 65536) + w[2]

\* low 16 bits of x * y, for 16-bit x and y
Mul16Lo(x, y) == ((x * (y % 256)) + (((x * (y \div 256)) % 256) * 256)) % 65536

\* a * b as the 32-bit multiply instruction computes it (low 32 bits)
MulWrap(a, b) ==
    LET A == ToLimbs(a)
        B == ToLimbs(b)
        p0 == A[2] * (B[2] % 256)
        p1 == A[2] * (B[2] \div 256)
        low == ((p1 % 256) * 256) + p0
        carry == (p1 \div 256) + (low \div 65536)
        high == (carry + Mul16Lo(A[1], B[2]) + Mul16Lo(A[2], B[1])) % 65536
    IN  FromLimbs(<<high, low % 65536>>)

Abs(a) == IF a < 0 THEN -a ELSE a

\* ------------------------------------------------------------- colors
\* A COLORREF / uint32_t cell, as its four bytes (0xAARRGGBB).
Byte == 0..255
MkColor(a, r, g, b) == [a |-> a, r |-> r, g |-> g, b |-> b]

White   == MkColor(255, 255, 255, 255)
Dark    == MkColor(255, 1, 2, 3)
Half    == MkColor(128, 128, 128, 128)
Clear   == MkColor(0, 0, 0, 0)
Tinted0 == MkColor(0, 255, 255, 255)       \* alpha 0, not premultiplied
Black   == MkColor(255, 0, 0, 0)
Amber   == MkColor(255, 255, 200, 100)

Colors      == {White, Dark, Half, Clear, Tinted0}
DestColors  == {Black, Amber}
StockColors == {Clear, White}              \* a pixel of a DC's default 1x1 bitmap

\* ------------------------------------------------------------- handles
NULL == "NULL"
HBITMAP == "hbitmap"
HDC == "hdc"
STOCKBITMAP == "stockbitmap"

Over == 0
Src == 1

Points == (0..(DestW - 1)) \X (0..(DestH - 1))

VARIABLES
    r,              \* RECT r  (fill's parameter)
    color,          \* COLORREF color
    op,             \* BYTE op: 0 is draw.Over, anything else draw.Src
    dest,           \* pixels of the destination context dc
    dest0,          \* the destination's pixels when fill was called
    pc,             \* position inside fill / blend
    bitmap,         \* fill's local HBITMAP bitmap
    ppvBits,        \* fill's local VOID *ppvBits
    pix,            \* cells of the DIB section, index -> color
    nWritten,       \* number of "*colors = color" executed by the loop
    fault,          \* a cell was written outside the DIB section
    compatibleDC,   \* blend's local HDC compatibleDC
    prevBitmap,     \* blend's local HBITMAP prevBitmap
    selected,       \* bitmap is the object selected into compatibleDC
    live,           \* native objects created and not yet destroyed
    trace           \* native calls made so far, with their outcome

vars == <<r, color, op, dest, dest0, pc, bitmap, ppvBits, pix, nWritten,
          fault, compatibleDC, prevBitmap, selected, live, trace>>

Call(name, ok) == [call |-> name, ok |-> ok]

\* the statements of fill and blend with DeleteObject moved before the
\* restoring SelectObject
StepAfterEarlyDelete(step) ==
    CASE step = "mkbitmap"     -> "fillloop"
      [] step = "fillloop"     -> "createDC"
      [] step = "createDC"     -> "select"
      [] step = "select"       -> "blit"
      [] step = "blit"         -> "deleteObject"
      [] step = "deleteObject" -> "restore"
      [] step = "restore"      -> "deleteDC"
      [] step = "deleteDC"     -> "done"

\* The statement that follows each statement of fill (lines 82-91) with
\* blend (lines 37-71) inlined at its call on line 89: straight-line code.
StepAfter(step) ==
    CASE step = "mkbitmap"     -> "fillloop"
      [] step = "fillloop"     -> "createDC"
      [] step = "createDC"     -> "select"
      [] step = "select"       -> "blit"
      [] step = "blit"         -> "restore"
      [] step = "restore"      -> "deleteDC"
      [] step = "deleteDC"     -> "deleteObject"
      [] step = "deleteObject" -> "done"

\* mkbitmap's dx, dy (and fill's r.right - r.left, r.bottom - r.top)
dx == SubWrap(r.right, r.left)
dy == SubWrap(r.bottom, r.top)

\* bi.bmiHeader.biHeight = -dy: negative means rows are stored top-down
biHeight == NegWrap(dy)

\* The byte size of a 32 bpp DIB section is a DWORD, so a section has at
\* most 2^30 - 1 cells; a negative width describes no bitmap at all.
MaxDIBCells == 1073741823

FitsDIB ==
    /\ dx >= 0
    /\ dy > LONG_MIN
    /\ (IF dx = 0 THEN TRUE ELSE Abs(dy) <= MaxDIBCells \div dx)

DestPatterns ==
    { [p \in Points |-> IF (p[1] + p[2]) % 2 = 0 THEN c1 ELSE c2] :
        c1 \in DestColors, c2 \in DestColors }

Init ==
    /\ r \in [left : 0..MaxOrigin, top : 0..MaxOrigin,
              right : (0..MaxEdge) \cup {LONG_MAX},
              bottom : (0..MaxEdge) \cup {LONG_MAX}]
    /\ color \in Colors
    /\ op \in {Over, Src}
    /\ dest \in DestPatterns
    /\ dest0 = dest
    /\ pc = "mkbitmap"
    /\ bitmap = NULL
    /\ ppvBits = NULL
    /\ pix = << >>
    /\ nWritten = 0
    /\ fault = FALSE
    /\ compatibleDC = NULL
    /\ prevBitmap = NULL
    /\ selected = FALSE
    /\ live = {}
    /\ trace = << >>

\* fill line 82: bitmap = mkbitmap(dc, &r, &ppvBits).  CreateDIBSection
\* returns a handle and the address of the cells, or NULL and a NULL address.
Mkbitmap ==
    /\ pc = "mkbitmap"
    /\ \E ok \in BOOLEAN :
        /\ ok => FitsDIB
        /\ bitmap' = IF ok THEN HBITMAP ELSE NULL
        /\ ppvBits' = IF ok THEN "bits" ELSE NULL
        /\ pix' = IF ok THEN [i \in 0..((dx * Abs(biHeight)) - 1) |-> Clear]
                        ELSE << >>
        /\ live' = IF ok THEN live \cup {HBITMAP} ELSE live
        /\ trace' = Append(trace, Call("CreateDIBSection", ok))
    /\ pc' = StepAfter(pc)
    /\ UNCHANGED <<r, color, op, dest, dest0, nWritten, fault, compatibleDC,
                   prevBitmap, selected>>

\* fill line 84
nPixels == MulWrap(dx, dy)

\* the loop as "for (i = 0; i < nPixels - 1; i++)"
LoopCountShort(n) == IF n > 1 THEN n - 1 ELSE 0

\* the loop as "for (i = 0; i <= nPixels; i++)"
LoopCountInclusive(n) == IF n >= 0 THEN n + 1 ELSE 0

\* number of iterations of "for (i = 0; i < nPixels; i++)"
LoopCount(n) == IF n > 0 THEN n ELSE 0

\* fill lines 83-88: the loop writes cells 0 .. nPixels-1 through colors.
\* A write outside the section (or through a NULL ppvBits) is undefined:
\* the process faults, or the call goes on.
FillLoop ==
    /\ pc = "fillloop"
    /\ LET n == LoopCount(nPixels)
           outside == n > 0 /\ (ppvBits = NULL \/ n > Cardinality(DOMAIN pix))
       IN  /\ nWritten' = n
           /\ pix' = [i \in DOMAIN pix |-> IF i < n THEN color ELSE pix[i]]
           /\ fault' = outside
           /\ trace' = Append(trace, Call("fill", ~outside))
           /\ IF outside THEN pc' \in {"crashed", StepAfter(pc)}
                         ELSE pc' = StepAfter(pc)
    /\ UNCHANGED <<r, color, op, dest, dest0, bitmap, ppvBits, compatibleDC,
                   prevBitmap, selected, live>>

\* blend line 37: compatibleDC = CreateCompatibleDC(dc); NULL is not acted on
CreateDC ==
    /\ pc = "createDC"
    /\ \E ok \in BOOLEAN :
        /\ compatibleDC' = IF ok THEN HDC ELSE NULL
        /\ live' = IF ok THEN live \cup {HDC} ELSE live
        /\ trace' = Append(trace, Call("CreateCompatibleDC", ok))
    /\ pc' = StepAfter(pc)
    /\ UNCHANGED <<r, color, op, dest, dest0, bitmap, ppvBits, pix, nWritten,
                   fault, prevBitmap, selected>>

\* blend line 41: prevBitmap = SelectObject(compatibleDC, bitmap).  The call
\* fails on a NULL context or a NULL bitmap and returns NULL then.
SelectBitmap ==
    /\ pc = "select"
    /\ \E ok \in BOOLEAN :
        /\ ok => (compatibleDC # NULL /\ bitmap # NULL)
        /\ prevBitmap' = IF ok THEN STOCKBITMAP ELSE NULL
        /\ selected' = ok
        /\ trace' = Append(trace, Call("SelectObject", ok))
    /\ pc' = StepAfter(pc)
    /\ UNCHANGED <<r, color, op, dest, dest0, bitmap, ppvBits, pix, nWritten,
                   fault, compatibleDC, live>>

\* The destination pixels the blit covers: origin (dr->left, dr->top),
\* size (dr->right - dr->left) x (dr->bottom - dr->top)   (lines 54-55, 61-62)
InRect(p) ==
    /\ p[1] >= r.left /\ p[1] - r.left < dx
    /\ p[2] >= r.top  /\ p[2] - r.top < dy

\* Cell of the section that holds source pixel (sx, sy): rows are top-down
\* when biHeight is negative (line 19), bottom-up otherwise.
CellIndex(sx, sy) ==
    IF biHeight < 0 THEN (sy * dx) + sx
    ELSE ((biHeight - 1 - sy) * dx) + sx

\* The source pixel read from compatibleDC at (0,0) + offset of p: a cell of
\* the section when it is selected, else the context's default bitmap.
SrcPixel(p, sel, stock) ==
    IF sel THEN pix[CellIndex(p[1] - r.left, p[2] - r.top)] ELSE stock

\* AlphaBlend with SourceConstantAlpha = 255 and AC_SRC_ALPHA (lines 49-53):
\* dst = src + (255 - src.alpha) * dst / 255 on every channel.  The rounding
\* (rnd) and the treatment of a sum above 255 (wrap or saturate) are the
\* platform's.
\* the destination weighted by alpha instead of 255 - alpha
BlendChannelSwapped(s, d, a, rnd, wrap) ==
    LET v == s + (((a * d) + rnd) \div 255)
    IN  IF v <= 255 THEN v ELSE IF wrap THEN v % 256 ELSE 255

\* the source copied, the destination ignored
BlendChannelCopy(s, d, a, rnd, wrap) == s

BlendChannel(s, d, a, rnd, wrap) ==
    LET v == s + ((((255 - a) * d) + rnd) \div 255)
    IN  IF v <= 255 THEN v ELSE IF wrap THEN v % 256 ELSE 255

AlphaBlendPixel(s, d, rnd, wrap) ==
    [a |-> BlendChannel(s.a, d.a, s.a, rnd, wrap),
     r |-> BlendChannel(s.r, d.r, s.a, rnd, wrap),
     g |-> BlendChannel(s.g, d.g, s.a, rnd, wrap),
     b |-> BlendChannel(s.b, d.b, s.a, rnd, wrap)]

\* blend lines 54-57
AlphaBlendResult(d, sel, stock, rnd, wrap) ==
    [p \in Points |->
        IF InRect(p) THEN AlphaBlendPixel(SrcPixel(p, sel, stock), d[p], rnd, wrap)
        ELSE d[p]]

\* BitBlt placing the copy at the destination's origin instead of (left, top)
BitBltResultAtOrigin(d, sel, stock) ==
    [p \in Points |->
        IF p[1] < dx /\ p[2] < dy THEN (IF sel THEN pix[0] ELSE stock) ELSE d[p]]

\* blend lines 61-64: BitBlt with SRCCOPY
BitBltResult(d, sel, stock) ==
    [p \in Points |-> IF InRect(p) THEN SrcPixel(p, sel, stock) ELSE d[p]]

\* blend line 48: op == 0 is draw.Over, anything else draw.Src
IsOver == op = 0

BlitName == IF IsOver THEN "AlphaBlend" ELSE "BitBlt"

\* blend lines 48-67: the blit is issued whatever the earlier calls returned;
\* its own failure (FALSE / 0) is not acted on.  It cannot succeed with a
\* NULL source context.
Blit ==
    /\ pc = "blit"
    /\ \E ok \in BOOLEAN, stock \in StockColors, rnd \in {0, 127},
          wrap \in BOOLEAN :
        /\ ok => compatibleDC # NULL
        /\ dest' = IF ~ok THEN dest
                   ELSE IF IsOver
                   THEN AlphaBlendResult(dest, selected, stock, rnd, wrap)
                   ELSE BitBltResult(dest, selected, stock)
        /\ trace' = Append(trace, Call(BlitName, ok))
    /\ pc' = StepAfter(pc)
    /\ UNCHANGED <<r, color, op, dest0, bitmap, ppvBits, pix, nWritten, fault,
                   compatibleDC, prevBitmap, selected, live>>

\* blend line 70: SelectObject(compatibleDC, prevBitmap), result not checked
RestoreSelection ==
    /\ pc = "restore"
    /\ LET ok == compatibleDC # NULL /\ prevBitmap # NULL
       IN  /\ selected' = IF ok THEN FALSE ELSE selected
           /\ trace' = Append(trace, Call("SelectObject(prev)", ok))
    /\ pc' = StepAfter(pc)
    /\ UNCHANGED <<r, color, op, dest, dest0, bitmap, ppvBits, pix, nWritten,
                   fault, compatibleDC, prevBitmap, live>>

\* blend line 71: DeleteDC(compatibleDC), also when compatibleDC is NULL
DeleteCompatibleDC ==
    /\ pc = "deleteDC"
    /\ LET ok == HDC \in live /\ compatibleDC = HDC
       IN  /\ live' = IF ok THEN live \ {HDC} ELSE live
           /\ selected' = IF ok THEN FALSE ELSE selected
           /\ trace' = Append(trace, Call("DeleteDC", ok))
    /\ pc' = StepAfter(pc)
    /\ UNCHANGED <<r, color, op, dest, dest0, bitmap, ppvBits, pix, nWritten,
                   fault, compatibleDC, prevBitmap>>

\* fill line 91: DeleteObject(bitmap), also when bitmap is NULL.  An object
\* still selected into a context cannot be deleted.
DeleteBitmap ==
    /\ pc = "deleteObject"
    /\ LET ok == HBITMAP \in live /\ bitmap = HBITMAP /\ ~selected
       IN  /\ live' = IF ok THEN live \ {HBITMAP} ELSE live
           /\ trace' = Append(trace, Call("DeleteObject", ok))
    /\ pc' = StepAfter(pc)
    /\ UNCHANGED <<r, color, op, dest, dest0, bitmap, ppvBits, pix, nWritten,
                   fault, compatibleDC, prevBitmap, selected>>

\* fill is declared void: the caller receives nothing
ReturnValue == "void"

Next ==
    \/ Mkbitmap
    \/ FillLoop
    \/ CreateDC
    \/ SelectBitmap
    \/ Blit
    \/ RestoreSelection
    \/ DeleteCompatibleDC
    \/ DeleteBitmap

Spec == Init /\ [][Next]_vars

\* ------------------------------------------------------------ properties
Calls == { trace[i].call : i \in DOMAIN trace }

\* every native call and the fill loop so far did what it was asked
AllOk == \A i \in DOMAIN trace : trace[i].ok

Returned == pc = "done"

NonNegativeRect == dx >= 0 /\ dy >= 0

Covered == { p \in Points : InRect(p) }

CreateCalls == {"CreateDIBSection", "CreateCompatibleDC"}
DestroyCalls == {"DeleteObject", "DeleteDC"}
ForwardCalls == {"fill", "CreateCompatibleDC", "SelectObject", "AlphaBlend", "BitBlt"}

NumCreated == Cardinality({ i \in DOMAIN trace : trace[i].call \in CreateCalls /\ trace[i].ok })
NumDestroyCalls == Cardinality({ i \in DOMAIN trace : trace[i].call \in DestroyCalls })

ErrorTag(call) ==
    CASE call = "CreateDIBSection"   -> "AllocationFailure"
      [] call = "CreateCompatibleDC" -> "ContextFailure"
      [] call = "SelectObject"       -> "BindingFailure"
      [] call \in {"AlphaBlend", "BitBlt"} -> "BlendFailure"
      [] OTHER -> "none"

\* the first native step that failed, 0 when none did
FirstFailure ==
    LET bad == { i \in DOMAIN trace : ErrorTag(trace[i].call) # "none" /\ ~trace[i].ok }
    IN  IF bad = {} THEN 0 ELSE CHOOSE i \in bad : \A j \in bad : i <= j

\* C1: when fill returns, every DeleteObject / DeleteDC call destroyed a
\* handle that had been created, the destroy calls are as many as the
\* successful creations, and nothing created is left alive.
C1_CreationsMatchDestructions ==
    Returned =>
        /\ live = {}
        /\ NumDestroyCalls = NumCreated
        /\ \A i \in DOMAIN trace : trace[i].call \in DestroyCalls => trace[i].ok

\* C2: when a native step of fill fails, no later step of the call (fill
\* loop, context creation, selection, blit) is executed and the caller
\* receives the tag of that failure.
C2_FailureAbortsAndIsReported ==
    (Returned /\ FirstFailure # 0) =>
        /\ ReturnValue = ErrorTag(trace[FirstFailure].call)
        /\ \A j \in DOMAIN trace : j > FirstFailure => trace[j].call \notin ForwardCalls

\* C3: when CreateDIBSection returned NULL, the loop writes no cell and no
\* blit to the destination is issued.
C3_NoFillNoBlitAfterAllocationFailure ==
    (Len(trace) >= 1 /\ ~trace[1].ok) =>
        /\ nWritten = 0
        /\ Calls \cap {"AlphaBlend", "BitBlt"} = {}

\* C4: with operator Src, a rectangle of non-negative size and every native
\* step succeeding, every destination pixel inside the rectangle equals
\* color when fill returns.
C4_SrcOverwritesRect ==
    (Returned /\ ~IsOver /\ AllOk /\ NonNegativeRect) =>
        \A p \in Covered : dest[p] = color

C4_Witness ==
    /\ Returned /\ ~IsOver /\ AllOk /\ NonNegativeRect
    /\ \E p \in Covered : dest0[p] # color
    /\ Covered # Points

\* C5: with operator Over and a color of alpha 255, every native step
\* succeeding, the destination ends as BitBlt (operator Src) would have left
\* the same initial destination.
C5_OpaqueOverEqualsSrc ==
    (Returned /\ IsOver /\ color.a = 255 /\ AllOk /\ NonNegativeRect) =>
        dest = BitBltResult(dest0, TRUE, Clear)

C5_Witness ==
    /\ Returned /\ IsOver /\ color.a = 255 /\ AllOk /\ NonNegativeRect
    /\ dest # dest0

\* C6 as stated: with operator Over and a color of alpha 0, whatever its
\* other three channels, every destination pixel is unchanged.
C6_AnyAlphaZeroLeavesDest ==
    (Returned /\ IsOver /\ color.a = 0 /\ AllOk /\ NonNegativeRect) =>
        dest = dest0

\* a premultiplied color has no channel above its alpha
Premultiplied(c) == c.r <= c.a /\ c.g <= c.a /\ c.b <= c.a

\* C6 amended: with operator Over and a premultiplied color of alpha 0 (all
\* four channels 0), every native step succeeding, every destination pixel
\* is unchanged.
C6_PremultipliedAlphaZeroLeavesDest ==
    (Returned /\ IsOver /\ color.a = 0 /\ Premultiplied(color) /\ AllOk
        /\ NonNegativeRect) =>
        dest = dest0

C6_Witness ==
    /\ Returned /\ IsOver /\ color.a = 0 /\ Premultiplied(color) /\ AllOk
    /\ Covered # {}

\* C7: once the loop has finished on a created section of non-negative
\* width w and height h, exactly w*h cells were written, each of the w*h
\* cells holds color, and the destination is as it was until the blit.
C7_FillWritesEveryCell ==
    (pc \notin {"mkbitmap", "fillloop"} /\ bitmap # NULL /\ NonNegativeRect) =>
        /\ Cardinality(DOMAIN pix) = dx * dy
        /\ nWritten = dx * dy
        /\ \A i \in DOMAIN pix : pix[i] = color
        /\ (pc \in {"createDC", "select", "blit"} => dest = dest0)

C7_Witness ==
    /\ pc = "createDC" /\ bitmap # NULL
    /\ Cardinality(DOMAIN pix) >= 4
    /\ color = Dark

\* C8: a rectangle of width 0 or height 0 has no cell written, no write
\* outside the section, no fault, and no destination pixel changed, whether
\* CreateDIBSection succeeded or not.
C8_DegenerateRectIsHarmless ==
    (dx = 0 \/ dy = 0) =>
        /\ nWritten = 0
        /\ ~fault
        /\ pc # "crashed"
        /\ dest = dest0

C8_Witness ==
    /\ Returned /\ dx = 0 /\ dy > 0
    /\ bitmap = NULL
    /\ trace[5].ok

StepOrder ==
    <<"CreateDIBSection", "fill", "CreateCompatibleDC", "SelectObject", BlitName,
      "SelectObject(prev)", "DeleteDC", "DeleteObject">>

\* C9: the steps of one call happen in the order create bitmap, fill,
\* create context, select, blit, restore, delete context, delete bitmap;
\* a returned call made all eight; the bitmap is selected only while it and
\* the context exist.
C9_StepsInOrder ==
    /\ Len(trace) <= Len(StepOrder)
    /\ \A i \in DOMAIN trace : trace[i].call = StepOrder[i]
    /\ (Returned => Len(trace) = Len(StepOrder))
    /\ (selected => {HBITMAP, HDC} \subseteq live)

C9_Witness ==
    /\ Returned /\ AllOk
    /\ live = {}

\* C10: the loop never writes more cells than the section that
\* CreateDIBSection created has.
C10_WritesWithinSection ==
    nWritten <= Cardinality(DOMAIN pix)
====
